---------------------------- MODULE Spec2Model ----------------------------
(***************************************************************************)
(* A model of simple_log.h: one LOG_INFO channel, the threads that call    *)
(* log_start / log_end / log_write / log_debug on it, the critical section *)
(* of the channel and the files the channel names.                         *)
(*                                                                         *)
(* A path is a sequence of one-character strings.  A file is a sequence of *)
(* records; a record is [id, len]: id numbers the writes in the order they *)
(* entered the critical section and len is the number of bytes of the      *)
(* formatted line.  The file                                               *)
(* system fs maps every existing file name to its content.                 *)
(***************************************************************************)
EXTENDS Integers, Sequences, FiniteSets, TLC

(***************************************************************************)
(* Program constants.                                                      *)
(***************************************************************************)
MAX_LOG_TEXT == 256
MAX_PATH == 260
\* strlen("YYYY/MM/DD, HH:MM:SS.mmm, LVL, "), the prefix both formats share
HDR_LEN == 31
\* strlen("\r\n")
CRLF_LEN == 2

(***************************************************************************)
(* Bounds of the model.  MAX_FILE_SIZE (1024 in the source), KB (the        *)
(* 1 << 10 of _get_filesize) and MAX_LOG_BACKUP (3 in the source) are       *)
(* scaled down so that a few records reach the threshold and a few writes  *)
(* fill every generation.                                                  *)
(***************************************************************************)
MAX_FILE_SIZE == 1
KB == 64
MAX_LOG_BACKUP == 2
MaxWrites == 4
MaxStarts == 1
MaxEnds == 1
MaxFaults == 1

Threads == {"t1", "t2"}
NULL == "NULL"
None == "none"

\* the szPath arguments log_start is called with
StartPaths == {NULL, <<"d", "/", "a", ".", "l">>}
\* the lengths of the formatted message in the calls of log_write and log_debug
MsgLens == {0}
DebugMsgLens == {40}
\* strlen of "<basename>(<line>), <function>, " in the calls of log_debug
DebugSrcLens == {11}

VARIABLES
    bUsed,      \* LOG_INFO.bUsed
    cs,         \* LOG_INFO.stCS: [st, owner, cnt]
    szLogPath,  \* LOG_INFO.szLogPath
    szDir,      \* LOG_INFO.szDir
    szFname,    \* LOG_INFO.szFname
    szFext,     \* LOG_INFO.szFext
    nFileSize,  \* LOG_INFO.nFileSize
    nLogBackup, \* LOG_INFO.nLogBackup
    fs,         \* the file system: name -> content
    pc,         \* per thread: the place in the function it runs
    loc,        \* per thread: the locals of the call it runs
    ret,        \* the call that returned last: [op, val]
    hist        \* history of the run (read by the properties only)

vars == <<bUsed, cs, szLogPath, szDir, szFname, szFext, nFileSize, nLogBackup,
          fs, pc, loc, ret, hist>>

chan == <<szLogPath, szDir, szFname, szFext, nFileSize, nLogBackup>>

Min(a, b) == IF a < b THEN a ELSE b

(***************************************************************************)
(* Strings.                                                                *)
(***************************************************************************)
\* snprintf(buf, nSize, "%s", s): at most nSize - 1 characters are stored
Snprintf(s, nSize) == SubSeq(s, 1, Min(Len(s), nSize - 1))

\* the last position of character c in s, 0 when there is none
LastIndexOf(s, c) ==
    LET I == {i \in 1..Len(s) : s[i] = c}
    IN  IF I = {} THEN 0 ELSE CHOOSE i \in I : \A j \in I : j <= i

\* _splitpath(szPath, drive, dir, fname, ext)
SplitPath(p) ==
    LET hasDrive == Len(p) >= 2 /\ p[2] = ":"
        drive == IF hasDrive THEN SubSeq(p, 1, 2) ELSE <<>>
        rest == IF hasDrive THEN SubSeq(p, 3, Len(p)) ELSE p
        slash == LastIndexOf(rest, "/")
        dir == SubSeq(rest, 1, slash)
        tail == SubSeq(rest, slash + 1, Len(rest))
        dot == LastIndexOf(tail, ".")
    IN  [drive |-> drive,
         dir |-> dir,
         fname |-> IF dot = 0 THEN tail ELSE SubSeq(tail, 1, dot - 1),
         ext |-> IF dot = 0 THEN <<>> ELSE SubSeq(tail, dot, Len(tail))]

\* "%d"
RECURSIVE DecStr(_)
DecStr(n) ==
    IF n < 10 THEN <<ToString(n)>> ELSE DecStr(n \div 10) \o <<ToString(n % 10)>>

\* _get_backupname's snprintf: "%s%s_%d%s" of szDir, szFname, nBkNo, szFext
BackupName(dir, fname, fext, nBkNo, nSize) ==
    Snprintf(dir \o fname \o <<"_">> \o DecStr(nBkNo) \o fext, nSize)

\* _get_backupname on the channel (the callers in _backup_file pass indices
\* in 0..nLogBackup, for which it does not fail)
GetBackupName(nBkNo) == BackupName(szDir, szFname, szFext, nBkNo, MAX_PATH + 1)

(***************************************************************************)
(* Records.                                                                *)
(***************************************************************************)
\* vsnprintf(szBuff0, MAX_LOG_TEXT, ...) then snprintf(szBuff1, 2 * MAX_LOG_TEXT,
\* ...): the number of bytes fputs writes.  srcLen is 0 for log_write.
RecordLen(msgLen, srcLen) ==
    Min(HDR_LEN + srcLen + Min(msgLen, MAX_LOG_TEXT - 1) + CRLF_LEN,
        2 * MAX_LOG_TEXT - 1)

NoRec == [id |-> 0, len |-> 0]

(***************************************************************************)
(* Files.                                                                  *)
(***************************************************************************)
RECURSIVE Bytes(_)
Bytes(content) ==
    IF content = <<>> THEN 0 ELSE Head(content).len + Bytes(Tail(content))

\* PathFileExists(name) && !PathIsDirectory(name): the model's file system
\* holds regular files only
FileExists(f, name) == name \in DOMAIN f

\* DeleteFile(name)
FsDelete(f, name) == [n \in DOMAIN f \ {name} |-> f[n]]

\* faulty variant: a rename that leaves an empty file at the new name
FsMoveContentLost(f, from, to) ==
    [n \in (DOMAIN f \ {from}) \cup {to} |-> IF n = to THEN <<>> ELSE f[n]]

\* MoveFile(from, to), which fails when to exists
FsMove(f, from, to) ==
    [n \in (DOMAIN f \ {from}) \cup {to} |-> IF n = to THEN f[from] ELSE f[n]]

\* faulty variant: fopen(name, "wb+"): the file is created or truncated
FsCreateTruncating(f, name) ==
    [n \in DOMAIN f \cup {name} |-> IF n = name THEN <<>> ELSE f[n]]

\* fopen(name, "ab+"): creates the file when it is absent
FsCreate(f, name) ==
    IF name \in DOMAIN f THEN f
    ELSE [n \in DOMAIN f \cup {name} |-> IF n = name THEN <<>> ELSE f[n]]

\* faulty variant: the line is written at the start of the file
FsPrepend(f, name, r) ==
    IF name \in DOMAIN f THEN [f EXCEPT ![name] = <<r>> \o @] ELSE f

\* fputs to a stream opened for append on the file name (a file that is gone
\* from the directory meanwhile takes the line with it)
FsAppend(f, name, r) ==
    IF name \in DOMAIN f THEN [f EXCEPT ![name] = Append(@, r)] ELSE f

\* faulty variant: the shift is one bit too long
FileSizeUnitsShiftedTwice(f, name) == Bytes(f[name]) \div (2 * KB)

\* faulty variant: the size is rounded up to the next unit
FileSizeUnitsRoundedUp(f, name) == (Bytes(f[name]) + KB - 1) \div KB

\* _filelength(_fileno(fp)) >> 10
FileSizeUnits(f, name) == Bytes(f[name]) \div KB


(***************************************************************************)
(* The critical section.  A CRITICAL_SECTION is recursive: its owner may   *)
(* enter it again, and it is free again after as many leaves as enters.    *)
(***************************************************************************)
\* the LOG_INFO before the first log_start: zeroed storage
CsZero == [st |-> "zero", owner |-> None, cnt |-> 0]

\* InitializeCriticalSection
CsInit == [st |-> "init", owner |-> None, cnt |-> 0]

\* DeleteCriticalSection
CsDelete == [st |-> "deleted", owner |-> None, cnt |-> 0]

\* faulty variant: a lock that does not exclude the other threads
CanEnterWhileOwned(c, t) == c.st = "init"

\* EnterCriticalSection returns to thread t only when this holds
CanEnter(c, t) == c.st = "init" /\ c.owner \in {None, t}

\* EnterCriticalSection, on return
CsEnter(c, t) == [c EXCEPT !.owner = t, !.cnt = @ + 1]

\* LeaveCriticalSection by the owner
CsLeave(c, t) ==
    IF c.owner = t
    THEN [c EXCEPT !.cnt = @ - 1, !.owner = IF c.cnt = 1 THEN None ELSE t]
    ELSE c

(***************************************************************************)
(* State of a thread.                                                      *)
(***************************************************************************)
EmptyFs == [n \in {} |-> <<>>]

\* the locals of a call: op the function, rec the record it formats, fsize
\* and nBkNo of _backup_file, path the szPath of log_start, fp the name of the
\* file the stream fp is open on; pre, rot and bad
\* remember the files _backup_file found, whether it ran the cascade and
\* whether a delete or rename of the cascade failed (read by the properties
\* only)
NoLocals ==
    [op |-> None, rec |-> NoRec, fsize |-> 0, nBkNo |-> 0, path |-> NULL,
     fp |-> NULL, pre |-> EmptyFs, rot |-> FALSE, bad |-> FALSE]

\* no call has returned yet
NoRet == [op |-> None, val |-> 0]

WritePcs == {"lock", "size", "del", "mv", "open", "close"}
\* between EnterCriticalSection's return and LeaveCriticalSection
SectionPcs == {"size", "del", "mv", "open", "close"}
LifecyclePcs == {"s_init", "s_lock", "s_copy", "e_del", "e_flag"}

\* the caller keeps the lifecycle of section 3 of the specification: start and
\* stop are called while no other call runs on the channel
Quiescent == \A u \in Threads : pc[u] = "idle"
NoLifecycleCall == \A u \in Threads : pc[u] \notin LifecyclePcs

\* a return statement of function op with value val
Return(t, op, val) ==
    /\ pc' = [pc EXCEPT ![t] = "idle"]
    /\ loc' = [loc EXCEPT ![t] = NoLocals]
    /\ ret' = [op |-> op, val |-> val]

Goto(t, label) == pc' = [pc EXCEPT ![t] = label]

\* an injected failure of an operating-system call; the budget bounds the run
MayFail == hist.faults < MaxFaults
Fault(h) == [h EXCEPT !.faults = @ + 1]

Ids(content) == {content[i].id : i \in 1..Len(content)}

Init ==
    /\ bUsed = FALSE
    /\ cs = CsZero
    /\ szLogPath = <<>>
    /\ szDir = <<>>
    /\ szFname = <<>>
    /\ szFext = <<>>
    /\ nFileSize = 0
    /\ nLogBackup = 0
    /\ fs = EmptyFs
    /\ pc = [t \in Threads |-> "idle"]
    /\ loc = [t \in Threads |-> NoLocals]
    /\ ret = NoRet
    /\ hist = [issued |-> 0, starts |-> 0, ends |-> 0, faults |-> 0,
               entered |-> 0, deleted |-> {}, ok |-> {}, written |-> {},
               renameFailed |-> FALSE]

(***************************************************************************)
(* log_start                                                               *)
(***************************************************************************)
\* lines 83-88: the argument check
StartCall(t, p) ==
    /\ pc[t] = "idle"
    /\ IF p = NULL
       THEN /\ Return(t, "start", -1)
            /\ UNCHANGED <<bUsed, cs, chan, fs, hist>>
       ELSE /\ hist.starts < MaxStarts
            /\ hist' = [hist EXCEPT !.starts = @ + 1]
            /\ Goto(t, "s_init")
            /\ loc' = [loc EXCEPT ![t] = [NoLocals EXCEPT !.op = "start", !.path = p]]
            /\ UNCHANGED <<bUsed, cs, chan, fs, ret>>

\* lines 90-96: the memsets, bUsed, nFileSize, nLogBackup
StartFields(t) ==
    /\ pc[t] = "s_init"
    /\ szLogPath' = <<>>
    /\ szDir' = <<>>
    /\ szFname' = <<>>
    /\ szFext' = <<>>
    /\ bUsed' = TRUE
    /\ nFileSize' = MAX_FILE_SIZE
    /\ nLogBackup' = MAX_LOG_BACKUP
    /\ Goto(t, "s_lock")
    /\ UNCHANGED <<cs, fs, loc, ret, hist>>

\* line 98: _log_lock_init
StartLockInit(t) ==
    /\ pc[t] = "s_lock"
    /\ cs' = CsInit
    /\ Goto(t, "s_copy")
    /\ UNCHANGED <<bUsed, chan, fs, loc, ret, hist>>

\* faulty variant: the live path is the requested path, without the "_0"
CopyFilepathAsRequested(p) ==
    LET sp == SplitPath(p)
    IN  [dir |-> Snprintf(sp.drive \o sp.dir, MAX_PATH + 1),
         fname |-> Snprintf(sp.fname, MAX_PATH + 1),
         fext |-> Snprintf(sp.ext, MAX_PATH + 1),
         path |-> Snprintf(p, MAX_PATH + 1)]

\* _copy_filepath, lines 366-380: what it stores in the channel
CopyFilepath(p) ==
    LET sp == SplitPath(p)
        dir == Snprintf(sp.drive \o sp.dir, MAX_PATH + 1)
        fname == Snprintf(sp.fname, MAX_PATH + 1)
        fext == Snprintf(sp.ext, MAX_PATH + 1)
    IN  [dir |-> dir, fname |-> fname, fext |-> fext,
         path |-> BackupName(dir, fname, fext, 0, MAX_PATH + 1)]

\* lines 101-103: _copy_filepath and the return
StartCopy(t) ==
    /\ pc[t] = "s_copy"
    /\ LET c == CopyFilepath(loc[t].path)
       IN  /\ szDir' = c.dir
           /\ szFname' = c.fname
           /\ szFext' = c.fext
           /\ szLogPath' = c.path
    /\ Return(t, "start", 0)
    /\ UNCHANGED <<bUsed, cs, nFileSize, nLogBackup, fs, hist>>

(***************************************************************************)
(* log_end                                                                 *)
(***************************************************************************)
\* lines 114-119: the argument check (the channel is never NULL here)
EndCall(t) ==
    /\ pc[t] = "idle"
    /\ hist.ends < MaxEnds
    /\ hist' = [hist EXCEPT !.ends = @ + 1]
    /\ Goto(t, "e_del")
    /\ loc' = [loc EXCEPT ![t] = [NoLocals EXCEPT !.op = "end"]]
    /\ UNCHANGED <<bUsed, cs, chan, fs, ret>>

\* line 120: _log_lock_delete
EndLockDelete(t) ==
    /\ pc[t] = "e_del"
    /\ cs' = CsDelete
    /\ Goto(t, "e_flag")
    /\ UNCHANGED <<bUsed, chan, fs, loc, ret, hist>>

\* faulty variant: log_end clears the path of the channel
EndFlagClearsPath(t) ==
    /\ pc[t] = "e_flag"
    /\ bUsed' = FALSE
    /\ szLogPath' = <<>>
    /\ Return(t, "end", 0)
    /\ UNCHANGED <<cs, szDir, szFname, szFext, nFileSize, nLogBackup, fs, hist>>

\* lines 121-122
EndFlag(t) ==
    /\ pc[t] = "e_flag"
    /\ bUsed' = FALSE
    /\ Return(t, "end", 0)
    /\ UNCHANGED <<cs, chan, fs, hist>>

(***************************************************************************)
(* log_write and log_debug.  The two run the same steps and differ in the  *)
(* line they format: srcLen is 0 for log_write.                            *)
(***************************************************************************)
\* faulty variant: the check without bUsed
WriteCheckArgumentsOnly(fmtOk) == fmtOk

\* lines 136-141 and 200-205: the check of the arguments and of bUsed
WriteCheck(fmtOk) == fmtOk /\ bUsed

WriteCall(t, op, fmtOk, msgLen, srcLen) ==
    /\ pc[t] = "idle"
    /\ IF WriteCheck(fmtOk)
       THEN /\ hist.issued < MaxWrites
            /\ hist' = [hist EXCEPT !.issued = @ + 1]
            /\ Goto(t, "lock")
            /\ loc' = [loc EXCEPT ![t] =
                          [NoLocals EXCEPT
                              !.op = op,
                              !.rec = [id |-> 0,
                                       len |-> RecordLen(msgLen, srcLen)]]]
            /\ UNCHANGED <<bUsed, cs, chan, fs, ret>>
       ELSE /\ Return(t, op, -1)
            /\ UNCHANGED <<bUsed, cs, chan, fs, hist>>

\* faulty variant: the write goes on without waiting for the critical section
WriteLockNoWait(t) ==
    /\ pc[t] = "lock"
    /\ cs' = CsEnter(cs, t)
    /\ hist' = [hist EXCEPT !.entered = @ + 1]
    /\ pc' = [pc EXCEPT ![t] = "size"]
    /\ loc' = [loc EXCEPT ![t].rec.id = hist.entered + 1]
    /\ UNCHANGED <<bUsed, chan, fs, ret>>

\* lines 146 and 207: _log_lock
WriteLock(t) ==
    /\ pc[t] = "lock"
    /\ CanEnter(cs, t)
    /\ cs' = CsEnter(cs, t)
    /\ hist' = [hist EXCEPT !.entered = @ + 1]
    /\ pc' = [pc EXCEPT ![t] = "size"]
    /\ loc' = [loc EXCEPT ![t].rec.id = hist.entered + 1]
    /\ UNCHANGED <<bUsed, chan, fs, ret>>

\* faulty variant: the comparison off by one unit
MustRotateOneUnitEarly(fsize) == nFileSize <= fsize + 1

\* faulty variant: the comparison with < for <=
MustRotateStrict(fsize) == nFileSize < fsize

\* line 427: the comparison of _backup_file
MustRotate(fsize) == nFileSize <= fsize

\* _backup_file, lines 419-427: _get_filesize of the live file (-1 when the
\* file is absent, or when its fopen or fclose fails) and the decision
BackupSize(t) ==
    /\ pc[t] = "size"
    /\ \E failed \in BOOLEAN :
          /\ failed => FileExists(fs, szLogPath) /\ MayFail
          /\ hist' = IF failed THEN Fault(hist) ELSE hist
          /\ LET fsize == IF failed \/ ~FileExists(fs, szLogPath) THEN -1
                          ELSE FileSizeUnits(fs, szLogPath)
             IN  IF fsize >= 0 /\ MustRotate(fsize)
                 THEN /\ Goto(t, "del")
                      /\ loc' = [loc EXCEPT ![t].fsize = fsize, ![t].pre = fs,
                                            ![t].rot = TRUE]
                 ELSE /\ Goto(t, "open")
                      /\ loc' = [loc EXCEPT ![t].fsize = fsize, ![t].pre = fs]
    /\ UNCHANGED <<bUsed, cs, chan, fs, ret>>

\* faulty variant: the loop leaves generation 0 where it is
LoopStopsAboveZero(nBkNo) == 0 < nBkNo

\* line 430: the generation _backup_file deletes
OldestGen == nLogBackup

\* faulty variant: the loop renames the oldest generation too
LoopFirstIsOldest == nLogBackup

\* line 435: the loop of _backup_file starts at this generation ...
LoopFirst == nLogBackup - 1

\* ... and goes on, downwards, while this holds
LoopContinues(nBkNo) == 0 <= nBkNo

\* faulty variant: a DeleteFile that fails ends the write with -1
BackupDeleteAborts(t) ==
    /\ pc[t] = "del"
    /\ LET szBefore == GetBackupName(OldestGen)
       IN  IF FileExists(fs, szBefore)
           THEN \E failed \in BOOLEAN :
                   /\ failed => MayFail
                   /\ IF failed
                      THEN /\ hist' = Fault(hist)
                           /\ Return(t, loc[t].op, -1)
                           /\ cs' = CsLeave(cs, t)
                           /\ UNCHANGED fs
                      ELSE /\ fs' = FsDelete(fs, szBefore)
                           /\ hist' = [hist EXCEPT !.deleted = @ \cup Ids(fs[szBefore])]
                           /\ loc' = [loc EXCEPT ![t].nBkNo = LoopFirst]
                           /\ Goto(t, "mv")
                           /\ UNCHANGED <<cs, ret>>
           ELSE /\ loc' = [loc EXCEPT ![t].nBkNo = LoopFirst]
                /\ Goto(t, "mv")
                /\ UNCHANGED <<fs, hist, cs, ret>>
    /\ UNCHANGED <<bUsed, chan>>

\* _backup_file, lines 430-433: the oldest generation is deleted
BackupDelete(t) ==
    /\ pc[t] = "del"
    /\ LET szBefore == GetBackupName(OldestGen)
       IN  IF FileExists(fs, szBefore)
           THEN \E failed \in BOOLEAN :
                   /\ failed => MayFail
                   /\ fs' = IF failed THEN fs ELSE FsDelete(fs, szBefore)
                   /\ hist' = IF failed THEN Fault(hist)
                              ELSE [hist EXCEPT !.deleted = @ \cup Ids(fs[szBefore])]
                   /\ loc' = [loc EXCEPT ![t].nBkNo = LoopFirst,
                                         ![t].bad = @ \/ failed]
           ELSE /\ loc' = [loc EXCEPT ![t].nBkNo = LoopFirst]
                /\ UNCHANGED <<fs, hist>>
    /\ Goto(t, "mv")
    /\ UNCHANGED <<bUsed, cs, chan, ret>>

\* _backup_file, lines 435-441: one turn of the loop that renames generation
\* nBkNo to nBkNo + 1
BackupMove(t) ==
    /\ pc[t] = "mv"
    /\ LET nBkNo == loc[t].nBkNo
           szBefore == GetBackupName(nBkNo)
           szAfter == GetBackupName(nBkNo + 1)
       IN  /\ IF ~LoopContinues(nBkNo)
              THEN /\ Goto(t, "open")
                   /\ UNCHANGED <<fs, hist, loc>>
              ELSE /\ Goto(t, "mv")
                   /\ IF FileExists(fs, szBefore)
                      THEN \E failed \in BOOLEAN :
                              /\ failed => (FileExists(fs, szAfter) \/ MayFail)
                              /\ ~failed => ~FileExists(fs, szAfter)
                              /\ fs' = IF failed THEN fs
                                       ELSE FsMove(fs, szBefore, szAfter)
                              /\ hist' = IF failed /\ ~FileExists(fs, szAfter)
                                         THEN [Fault(hist) EXCEPT
                                                  !.renameFailed = TRUE]
                                         ELSE hist
                              /\ loc' = [loc EXCEPT ![t].nBkNo = nBkNo - 1,
                                                    ![t].bad = @ \/ failed]
                      ELSE /\ loc' = [loc EXCEPT ![t].nBkNo = nBkNo - 1]
                           /\ UNCHANGED <<fs, hist>>
    /\ UNCHANGED <<bUsed, cs, chan, ret>>

\* lines 154-159 and 220-225: fopen(szLogPath, "ab+"); when it fails the
\* function returns -1.  fopen of the empty name always fails.
WriteOpen(t) ==
    /\ pc[t] = "open"
    /\ \E failed \in BOOLEAN :
          /\ failed => (MayFail \/ szLogPath = <<>>)
          /\ ~failed => szLogPath # <<>>
          /\ IF failed
             THEN /\ hist' = IF szLogPath = <<>> THEN hist ELSE Fault(hist)
                  /\ Return(t, loc[t].op, -1)
                  /\ UNCHANGED fs
             ELSE /\ fs' = FsCreate(fs, szLogPath)
                  /\ Goto(t, "close")
                  /\ loc' = [loc EXCEPT ![t].fp = szLogPath]
                  /\ UNCHANGED <<hist, ret>>
    /\ UNCHANGED <<bUsed, cs, chan>>

\* lines 175-183 and 245-253: fputs, fclose, _log_unlock and the return; the
\* line reaches the file when fclose flushes the stream, and a failed fclose
\* may or may not have flushed it
WriteClose(t) ==
    /\ pc[t] = "close"
    /\ \E failed \in BOOLEAN, flushed \in BOOLEAN :
          /\ failed => MayFail
          /\ ~failed => flushed
          /\ fs' = IF flushed THEN FsAppend(fs, loc[t].fp, loc[t].rec) ELSE fs
          /\ hist' = [(IF failed THEN Fault(hist)
                       ELSE [hist EXCEPT !.ok = @ \cup {loc[t].rec.id}])
                         EXCEPT !.written = IF flushed /\ FileExists(fs, loc[t].fp)
                                            THEN @ \cup {loc[t].rec.id} ELSE @]
          /\ Return(t, loc[t].op, IF failed THEN -1 ELSE 0)
    /\ cs' = CsLeave(cs, t)
    /\ UNCHANGED <<bUsed, chan>>

(***************************************************************************)
(* The specification: threads call the functions in any order, start and   *)
(* stop while no other call runs.                                          *)
(***************************************************************************)
Next ==
    \E t \in Threads :
        \/ Quiescent /\ \E p \in StartPaths : StartCall(t, p)
        \/ StartFields(t)
        \/ StartLockInit(t)
        \/ StartCopy(t)
        \/ Quiescent /\ EndCall(t)
        \/ EndLockDelete(t)
        \/ EndFlag(t)
        \/ NoLifecycleCall /\ \E fmtOk \in BOOLEAN, m \in MsgLens :
                                  WriteCall(t, "write", fmtOk, m, 0)
        \/ NoLifecycleCall /\ \E m \in DebugMsgLens, s \in DebugSrcLens :
                                  WriteCall(t, "debug", TRUE, m, s)
        \/ WriteLock(t)
        \/ BackupSize(t)
        \/ BackupDelete(t)
        \/ BackupMove(t)
        \/ WriteOpen(t)
        \/ WriteClose(t)

Spec == Init /\ [][Next]_vars

\* The steps of a call in progress.  The scheduler runs every thread that can
\* take a step, and a thread waiting in EnterCriticalSection gets the
\* critical section if it is free again and again.
Step(t) ==
    \/ StartFields(t) \/ StartLockInit(t) \/ StartCopy(t)
    \/ EndLockDelete(t) \/ EndFlag(t)
    \/ BackupSize(t) \/ BackupDelete(t) \/ BackupMove(t)
    \/ WriteOpen(t) \/ WriteClose(t)

FairSpec ==
    Spec /\ \A t \in Threads : WF_vars(Step(t)) /\ SF_vars(WriteLock(t))

\* EnterCriticalSection on a critical section that is not initialized (zeroed
\* storage, or deleted) is undefined: it may return, which is this step, or
\* never return, which is no step.
WriteLockUndefined(t) ==
    /\ pc[t] = "lock"
    /\ cs.st # "init"
    /\ cs' = CsEnter(cs, t)
    /\ hist' = [hist EXCEPT !.entered = @ + 1]
    /\ pc' = [pc EXCEPT ![t] = "size"]
    /\ loc' = [loc EXCEPT ![t].rec.id = hist.entered + 1]
    /\ UNCHANGED <<bUsed, chan, fs, ret>>

\* Callers that keep no lifecycle: any thread calls log_start, log_end,
\* log_write and log_debug at any time.
NextRace ==
    \E t \in Threads :
        \/ \E p \in StartPaths : StartCall(t, p)
        \/ StartFields(t)
        \/ StartLockInit(t)
        \/ StartCopy(t)
        \/ EndCall(t)
        \/ EndLockDelete(t)
        \/ EndFlag(t)
        \/ \E fmtOk \in BOOLEAN, m \in MsgLens : WriteCall(t, "write", fmtOk, m, 0)
        \/ \E m \in DebugMsgLens, s \in DebugSrcLens : WriteCall(t, "debug", TRUE, m, s)
        \/ WriteLock(t)
        \/ WriteLockUndefined(t)
        \/ BackupSize(t)
        \/ BackupDelete(t)
        \/ BackupMove(t)
        \/ WriteOpen(t)
        \/ WriteClose(t)

SpecRace == Init /\ [][NextRace]_vars

\* The same callers, which also call log_start with the empty string.
EmptyPath == <<>>

NextAnyPath ==
    \/ Next
    \/ \E t \in Threads : Quiescent /\ StartCall(t, EmptyPath)

SpecAnyPath == Init /\ [][NextAnyPath]_vars

(***************************************************************************)
(* What the properties read.                                               *)
(***************************************************************************)
Gens == 0..nLogBackup
Gen(i) == GetBackupName(i)
AllIdle == \A t \in Threads : pc[t] = "idle"
\* the threshold in bytes: fsize >= nFileSize, where fsize = bytes >> 10
ThresholdBytes == nFileSize * KB
Content(f, name) == IF name \in DOMAIN f THEN f[name] ELSE <<>>
Live == szLogPath
\* the step by which thread t returns from a write that entered the critical
\* section, and the one by which it returns 0
WriteReturns(t) == pc[t] \in {"open", "close"} /\ pc'[t] = "idle"
WriteSucceeds(t) == pc[t] = "close" /\ pc'[t] = "idle" /\ ret'.val = 0
\* the step by which thread t calls log_write or log_debug
WriteCalled(t) ==
    \/ \E fmtOk \in BOOLEAN, m \in MsgLens : WriteCall(t, "write", fmtOk, m, 0)
    \/ \E m \in DebugMsgLens, s \in DebugSrcLens : WriteCall(t, "debug", TRUE, m, s)
\* the number of records in the generations G of the channel
RECURSIVE RecordCount(_)
RecordCount(G) ==
    IF G = {} THEN 0
    ELSE LET i == CHOOSE x \in G : TRUE
         IN  Len(Content(fs, Gen(i))) + RecordCount(G \ {i})
\* log_start has returned 0 at least once and no log_start is in progress
Started ==
    /\ hist.starts > 0
    /\ \A t \in Threads : pc[t] \notin {"s_init", "s_lock", "s_copy"}
\* the step by which thread t passes fopen or fputs / fclose
OpensOrAppends(t) == pc[t] \in {"open", "close"} /\ pc'[t] # pc[t]
\* file n is there before and after the step, with the same content
Untouched(n) == n \in DOMAIN fs /\ n \in DOMAIN fs' /\ fs'[n] = fs[n]
\* the generation indices whose file exists in f, and the names of all of them
Indices(f) == {i \in Gens : Gen(i) \in DOMAIN f}
GenNames == {Gen(i) : i \in Gens}
\* the indices of f are 0..k for some k
Contiguous(f) == \E k \in Gens : Indices(f) = 0..k
\* the longest line the calls of log_write and log_debug write
MaxRecordLen ==
    LET L == {RecordLen(m, 0) : m \in MsgLens}
                \cup {RecordLen(m, k) : m \in DebugMsgLens, k \in DebugSrcLens}
    IN  CHOOSE x \in L : \A y \in L : y <= x
\* the live file is less than one record above the threshold
WithinOneRecord(f) == Bytes(Content(f, Live)) < ThresholdBytes + MaxRecordLen
\* the live file was absent when thread t measured it, or t read its size
SizeKnown(t) == loc[t].fsize >= 0 \/ Live \notin DOMAIN loc[t].pre
\* the records of generation i, then those of i - 1, ... then the live file's
RECURSIVE FromGen(_)
FromGen(i) == IF i < 0 THEN <<>> ELSE Content(fs, Gen(i)) \o FromGen(i - 1)
\* the files after a cascade on the files f: generation nLogBackup is gone,
\* every other generation is one index higher, the live file is absent
Shifted(f) ==
    LET names == {Gen(i) : i \in Gens}
        moved == {i \in Gens : i > 0 /\ Gen(i - 1) \in DOMAIN f}
        index(n) == CHOOSE i \in Gens : Gen(i) = n
    IN  [n \in (DOMAIN f \ names) \cup {Gen(i) : i \in moved} |->
            IF n \in names THEN f[Gen(index(n) - 1)] ELSE f[n]]
\* the files f with record r at the end of file name
WithRecord(f, name, r) ==
    [n \in DOMAIN f \cup {name} |-> IF n = name THEN Append(Content(f, n), r) ELSE f[n]]

\* C1: every exit path of log_write and log_debug releases the critical
\* section: a thread that is not inside a call does not own it.
C1_LockReleasedOnReturn == \A t \in Threads : pc[t] = "idle" => cs.owner # t

\* C2: at most one thread at a time is between EnterCriticalSection and
\* LeaveCriticalSection, that is in the read-size / rotate / open-append-close
\* steps of the channel.
C2_MutualExclusion ==
    \A t, u \in Threads : t # u => ~(pc[t] \in SectionPcs /\ pc[u] \in SectionPcs)

\* one thread runs the cascade while the other waits in EnterCriticalSection
C2_Witness ==
    \E t, u \in Threads : t # u /\ pc[t] \in {"del", "mv"} /\ pc[u] = "lock"

\* C3: under fair scheduling every write call that was issued returns.
C3_WriteReturns == \A t \in Threads : (pc[t] \in WritePcs) ~> (pc[t] = "idle")

\* C4: the records of the channel lie on disk in the order their writes
\* entered the critical section (the order of the ids): the earlier record is
\* earlier in the same file or in a file of a higher generation, that is, the
\* files read from the highest generation down to the live file give the ids
\* in increasing order.
C4_EntryOrder ==
    LET disk == FromGen(nLogBackup)
    IN  \A k \in 1..(Len(disk) - 1) : disk[k].id < disk[k + 1].id

\* a backup holds two records and the live file a later one
C4_Witness ==
    \E i \in Gens : /\ i > 0
                    /\ Len(Content(fs, Gen(i))) >= 2
                    /\ Len(Content(fs, Live)) >= 1

\* C5 as claimed: once all writes have returned, the live file and the
\* backups hold as many records as writes were issued (stated here for the
\* runs in which every write returned success).
C5_CountEqualsIssued ==
    (AllIdle /\ hist.ok = 1..hist.issued) => RecordCount(Gens) = hist.issued

\* C5 as amended: once all writes have returned, and every one of them with
\* success, the records in the live file and the backups, and those of the
\* files the rotations deleted as the oldest generation, are as many as the
\* writes issued.
C5_CountWithDeleted ==
    (AllIdle /\ hist.ok = 1..hist.issued)
        => RecordCount(Gens) + Cardinality(hist.deleted) = hist.issued

\* every write was issued and returned 0, and a rotation deleted a file
C5_Witness ==
    /\ AllIdle
    /\ hist.issued = MaxWrites
    /\ hist.ok = 1..hist.issued
    /\ hist.deleted # {}
    /\ RecordCount(Gens) < hist.issued

\* C6: a write on a channel that is not started (never started, or stopped)
\* returns -1 at once: no file is created, appended to, renamed or deleted,
\* and the critical section and the channel are not touched.
C6_InactiveWrite ==
    [][\A t \in Threads :
          (WriteCalled(t) /\ ~bUsed)
              => /\ pc'[t] = "idle"
                 /\ ret'.val = -1
                 /\ ret'.op \in {"write", "debug"}
                 /\ UNCHANGED <<fs, cs, bUsed, chan>>]_vars

\* a write has just returned -1 on a channel that was started, written to and
\* stopped
C6_Witness ==
    /\ ~bUsed
    /\ hist.starts = 1
    /\ hist.ends = 1
    /\ hist.faults = 0
    /\ hist.ok # {}
    /\ ret = [op |-> "write", val |-> -1]

\* C7 as claimed: the rotation of a write that found the live file at or above
\* the threshold removes generation nLogBackup, moves every other generation
\* one index up and leaves the live slot empty, and when the write returns the
\* live file holds only the new record.
C7_RotationCascade ==
    [][\A t \in Threads :
          /\ (pc[t] = "mv" /\ pc'[t] = "open") => fs' = Shifted(loc[t].pre)
          /\ (loc[t].rot /\ WriteReturns(t))
                => Content(fs', Live) = <<loc[t].rec>>]_vars

\* C7 as amended: the same, when every delete and rename of the rotation
\* succeeds and, for the live file, when the write returns success.
C7_RotationCascadeIfStepsSucceed ==
    [][\A t \in Threads :
          /\ (pc[t] = "mv" /\ pc'[t] = "open" /\ ~loc[t].bad)
                => fs' = Shifted(loc[t].pre)
          /\ (loc[t].rot /\ ~loc[t].bad /\ WriteSucceeds(t))
                => Content(fs', Live) = <<loc[t].rec>>]_vars

\* a cascade without a failure is over in a directory where every generation
\* existed: the oldest was deleted, the others were renamed
C7_Witness ==
    \E t \in Threads :
        /\ pc[t] = "open"
        /\ loc[t].rot
        /\ ~loc[t].bad
        /\ \A i \in Gens : Gen(i) \in DOMAIN loc[t].pre
        /\ Gen(0) \notin DOMAIN fs

\* C8 as claimed: after every rotation generation 1 holds what the live file
\* held before it.
C8_LiveBecomesGen1 ==
    \A t \in Threads :
        (pc[t] = "open" /\ loc[t].rot)
            => Gen(1) \in DOMAIN fs /\ fs[Gen(1)] = loc[t].pre[Live]

\* C8 as amended: after every rotation what the live file held before it is,
\* unchanged, the content of generation 1, or still the content of the live
\* file when its rename failed; and every file there is after the rotation is,
\* whole, a file there was before it.
C8_LiveContentKept ==
    \A t \in Threads :
        (pc[t] = "open" /\ loc[t].rot)
            => /\ IF Live \in DOMAIN fs
                  THEN fs[Live] = loc[t].pre[Live]
                  ELSE Gen(1) \in DOMAIN fs /\ fs[Gen(1)] = loc[t].pre[Live]
               /\ \A n \in DOMAIN fs : \E m \in DOMAIN loc[t].pre : fs[n] = loc[t].pre[m]

\* a rotation moved a live file of two records to generation 1
C8_Witness ==
    \E t \in Threads :
        /\ pc[t] = "open"
        /\ loc[t].rot
        /\ Live \notin DOMAIN fs
        /\ Len(Content(fs, Gen(1))) >= 2

\* C9: while the live file is below the threshold (or absent) no step renames
\* or deletes a file or creates a backup: every file stays, every file but
\* the live one keeps its content, and no file but the live one appears.
C9_NoBackupBelowThreshold ==
    [][Bytes(Content(fs, Live)) < ThresholdBytes
          => /\ \A n \in DOMAIN fs : n \in DOMAIN fs' /\ (n # Live => fs'[n] = fs[n])
             /\ DOMAIN fs' \ DOMAIN fs \subseteq {Live}]_vars

\* a write found the live file with a record in it, below the threshold, and
\* goes on to append to it; there is no backup
C9_Witness ==
    \E t \in Threads :
        /\ pc[t] = "close"
        /\ ~loc[t].rot
        /\ loc[t].fsize = 0
        /\ DOMAIN fs = {Live}
        /\ Len(fs[Live]) >= 1

\* C10 as claimed: the write whose record takes the live file from below the
\* threshold to the threshold or above rotates: when it returns, generation 1
\* holds the prior content and the live file only its record.
C10_PushingWriteRotates ==
    [][\A t \in Threads :
          (/\ WriteSucceeds(t)
           /\ Content(fs, Live) # <<>>
           /\ Bytes(Content(fs, Live)) < ThresholdBytes
           /\ Bytes(Content(fs', Live)) >= ThresholdBytes)
              => /\ fs'[Live] = <<loc[t].rec>>
                 /\ Content(fs', Gen(1)) = fs[Live]]_vars

\* C10 as amended: a write rotates if and only if it finds (_get_filesize
\* succeeding) the live file at or above the threshold; a write that does not
\* rotate and returns success has only appended its record to the live file,
\* whatever the size becomes; a write that rotates, without a failing step,
\* and returns success leaves the prior content, with the record that reached
\* the threshold, in generation 1 and only its own record in the live file.
C10_NextWriteRotates ==
    [][\A t \in Threads :
          /\ (pc[t] = "size" /\ pc'[t] # "size")
                => (loc'[t].rot <=> (/\ loc'[t].fsize >= 0
                                     /\ Bytes(Content(fs, Live)) >= ThresholdBytes))
          /\ (WriteSucceeds(t) /\ ~loc[t].rot)
                => fs' = WithRecord(loc[t].pre, Live, loc[t].rec)
          /\ (WriteSucceeds(t) /\ loc[t].rot /\ ~loc[t].bad)
                => /\ fs'[Live] = <<loc[t].rec>>
                   /\ fs'[Gen(1)] = loc[t].pre[Live]]_vars

\* all calls have returned; generation 1 ends with the record that reached the
\* threshold and the live file holds the record of the next write
C10_Witness ==
    /\ AllIdle
    /\ Len(Content(fs, Gen(1))) = 2
    /\ fs[Gen(1)][1].len < ThresholdBytes
    /\ Bytes(fs[Gen(1)]) >= ThresholdBytes
    /\ Len(Content(fs, Live)) = 1
    /\ fs[Live][1].id = fs[Gen(1)][2].id + 1

\* C11 as claimed: log_end on a channel that is not active (never started, or
\* stopped) returns -1 and leaves the critical section as it is.
C11_StopOnInactiveFails ==
    [][\A t \in Threads :
          ~bUsed => /\ (pc[t] = "e_del" /\ pc'[t] # "e_del") => cs' = cs
                    /\ (pc[t] = "e_flag" /\ pc'[t] = "idle") => ret'.val = -1]_vars

\* C12 as claimed: log_start with a null or an empty path returns -1 and
\* changes nothing: bUsed, the critical section and the fields stay.
C12_StartRejectsNullOrEmpty ==
    [][\A t \in Threads :
          /\ StartCall(t, NULL)
                => ret'.val = -1 /\ pc'[t] = "idle" /\ UNCHANGED <<bUsed, cs, chan>>
          /\ (pc[t] \in {"s_init", "s_lock", "s_copy"} /\ loc[t].path = EmptyPath)
                => /\ UNCHANGED <<bUsed, cs, chan>>
                   /\ pc'[t] = "idle" => ret'.val = -1]_vars

\* C13: in every state after a successful log_start the live path is the
\* backup name of generation 0, directory stem "_0" extension; and the fopen
\* and the fputs / fclose of every write create or extend that file and leave
\* every other file alone: a write that returns 0 has put its record at the
\* end of it.
C13_LiveIsGenerationZero ==
    /\ [](Started => /\ szLogPath = BackupName(szDir, szFname, szFext, 0, MAX_PATH + 1)
                     /\ szLogPath = szDir \o szFname \o <<"_", "0">> \o szFext)
    /\ [][\A t \in Threads :
             OpensOrAppends(t)
                => /\ \A n \in (DOMAIN fs \cup DOMAIN fs') \ {Gen(0)} : Untouched(n)
                   /\ WriteSucceeds(t)
                         => fs'[Gen(0)] = Append(Content(fs, Gen(0)), loc[t].rec)]_vars

\* log_start("d/a.l") has returned, a write has returned 0 and its record is
\* in d/a_0.l, the only file there is
C13_Witness ==
    /\ AllIdle
    /\ hist.starts = 1
    /\ hist.ok # {}
    /\ szLogPath = <<"d", "/", "a", "_", "0", ".", "l">>
    /\ DOMAIN fs = {szLogPath}
    /\ Len(fs[szLogPath]) >= 1

\* C14 as claimed: after every completed write (stated here for the writes
\* that return success) the files of the channel are generations 0..k for
\* some k <= nLogBackup, without a gap, and the file of generation nLogBackup
\* goes away by deletion only.
C14_ContiguousGenerations ==
    [][/\ \A t \in Threads :
             WriteSucceeds(t) => DOMAIN fs' \subseteq GenNames /\ Contiguous(fs')
       /\ (Gen(nLogBackup) \in DOMAIN fs /\ Gen(nLogBackup) \notin DOMAIN fs')
             => fs' = FsDelete(fs, Gen(nLogBackup))]_vars

\* C14 as amended: after every write that returns success the files of the
\* channel are generations within 0..nLogBackup and generation 0 is one of
\* them; they are 0..k without a gap as long as no MoveFile of a rotation has
\* failed on a free target name; and the file of generation nLogBackup goes
\* away by deletion only.
C14_ContiguousUnlessRenameFailed ==
    [][/\ \A t \in Threads :
             WriteSucceeds(t)
                => /\ DOMAIN fs' \subseteq GenNames
                   /\ 0 \in Indices(fs')
                   /\ ~hist'.renameFailed => Contiguous(fs')
       /\ (Gen(nLogBackup) \in DOMAIN fs /\ Gen(nLogBackup) \notin DOMAIN fs')
             => fs' = FsDelete(fs, Gen(nLogBackup))]_vars

\* without any failure the writes have filled every generation, and a
\* rotation has deleted the oldest one
C14_Witness ==
    /\ AllIdle
    /\ hist.faults = 0
    /\ hist.ok = 1..hist.issued
    /\ hist.deleted # {}
    /\ Indices(fs) = Gens

\* C15: a DeleteFile or MoveFile of the cascade that fails does not end the
\* write: the thread goes on to the next step of the cascade and to fopen,
\* and when fopen and then fclose succeed the record is at the end of the live
\* file and the write returns 0.
C15_CascadeFailuresSwallowed ==
    [][\A t \in Threads :
          /\ pc[t] \in {"del", "mv"} => pc'[t] \in {"del", "mv", "open"}
          /\ (loc[t].bad /\ pc[t] = "close" /\ pc'[t] = "idle"
                /\ hist'.faults = hist.faults)
                => /\ ret'.val = 0
                   /\ fs' = WithRecord(fs, Live, loc[t].rec)]_vars

\* the rename of the live file failed, the write that ran the rotation and
\* every other write returned 0: generation 1 is missing between the live
\* file and generation 2, and the live file has the record of that write too
C15_Witness ==
    /\ AllIdle
    /\ hist.renameFailed
    /\ hist.ok = 1..hist.issued
    /\ ret.val = 0
    /\ Indices(fs) = {0, 2}
    /\ Len(fs[Live]) >= 2

\* C16 as claimed: after any completed write the live file is less than the
\* threshold plus the longest record, also when steps of the rotation failed
\* (stated here for the writes that could measure the live file).
C16_LiveWithinOneRecord ==
    [][\A t \in Threads :
          (WriteReturns(t) /\ SizeKnown(t)) => WithinOneRecord(fs')]_vars

\* C16 as amended: after a completed write the live file is less than the
\* threshold plus the longest record when the write could measure the live
\* file (_get_filesize did not fail) and no delete or rename of its rotation
\* failed.
C16_LiveWithinOneRecordIfRotated ==
    [][\A t \in Threads :
          (WriteReturns(t) /\ SizeKnown(t) /\ ~loc[t].bad)
              => WithinOneRecord(fs')]_vars

\* without any failure the live file is at or above the threshold after a
\* write, by less than one record
C16_Witness ==
    /\ AllIdle
    /\ hist.faults = 0
    /\ hist.ok # {}
    /\ Bytes(Content(fs, Live)) >= ThresholdBytes
    /\ WithinOneRecord(fs)

\* C17 as claimed: a write runs the cascade if and only if the live file
\* exists when the write measures it and its size in bytes, divided by the
\* unit and rounded down, is at least nFileSize; a write that does not run
\* the cascade renames and deletes nothing.
C17_RotatesIffExistsAndQuotient ==
    [][\A t \in Threads :
          /\ (pc[t] = "size" /\ pc'[t] # "size")
                => (pc'[t] = "del"
                      <=> (/\ FileExists(fs, Live)
                           /\ Bytes(fs[Live]) \div KB >= nFileSize))
          /\ (pc[t] \in {"size", "open", "close"} /\ pc'[t] # pc[t] /\ ~loc[t].rot)
                => \A n \in (DOMAIN fs \cup DOMAIN fs') \ {Live} : Untouched(n)]_vars

\* C17 as amended: a write runs the cascade if and only if the live file
\* exists when the write measures it, _get_filesize can read its size, and
\* the size in bytes, divided by the unit and rounded down, is at least
\* nFileSize; a write that does not run the cascade renames and deletes
\* nothing.
C17_RotatesIffSizeReadAndQuotient ==
    [][\A t \in Threads :
          /\ (pc[t] = "size" /\ pc'[t] # "size")
                => /\ pc'[t] \in {"del", "open"}
                   /\ pc'[t] = "del"
                         <=> (/\ FileExists(fs, Live)
                              /\ loc'[t].fsize >= 0
                              /\ Bytes(fs[Live]) \div KB >= nFileSize)
          /\ (pc[t] \in {"size", "open", "close"} /\ pc'[t] # pc[t] /\ ~loc[t].rot)
                => \A n \in (DOMAIN fs \cup DOMAIN fs') \ {Live} : Untouched(n)]_vars

\* a write is about to run the cascade: it found a live file of two records
\* at or above the threshold, the first record alone being below one unit
C17_Witness ==
    \E t \in Threads :
        /\ pc[t] = "del"
        /\ loc[t].fsize = Bytes(fs[Live]) \div KB
        /\ loc[t].fsize >= nFileSize
        /\ Len(fs[Live]) = 2
        /\ fs[Live][1].len < KB

\* C18: once log_start has returned 0, no step of a write (failing or not,
\* rotating or not) or of log_end changes szDir, szFname, szFext, szLogPath,
\* nFileSize or nLogBackup; they are the values log_start stored.
C18_FieldsFrozenAfterStart ==
    /\ [](Started => nFileSize = MAX_FILE_SIZE /\ nLogBackup = MAX_LOG_BACKUP)
    /\ [][Started => UNCHANGED chan]_vars

\* the channel was started, written to until a rotation, and stopped; a
\* write failed on the way; the fields are those of log_start("d/a.l")
C18_Witness ==
    /\ AllIdle
    /\ ~bUsed
    /\ hist.starts = 1
    /\ hist.ends = 1
    /\ hist.faults = 1
    /\ {0, 1} \subseteq Indices(fs)
    /\ szLogPath = <<"d", "/", "a", "_", "0", ".", "l">>
    /\ <<szDir, szFname, szFext>> = <<(<<"d", "/">>), (<<"a">>), (<<".", "l">>)>>

\* C19 as claimed: under any interleaving of log_start, log_write / log_debug
\* and log_end on the channel, a thread that is between EnterCriticalSection
\* and LeaveCriticalSection holds a critical section that is initialized (it
\* was not entered before InitializeCriticalSection or after
\* DeleteCriticalSection, and was not deleted or initialized again since).
C19_LockLifecycle ==
    \A t \in Threads : pc[t] \in SectionPcs => cs.st = "init" /\ cs.owner = t

\* C20: in every state (no log_start being in progress) the files of the
\* channel, read from generation nLogBackup down to the live file, hold the
\* records that reached a file, in the order of their writes, each once,
\* but for the oldest of them: the records that are gone are those of the
\* files deleted as generation nLogBackup, and each of them is older than
\* every record still there.  Failing renames and deletes included.
C20_DiskIsSuffixOfWritten ==
    Started =>
        LET disk == FromGen(nLogBackup)
            D == Ids(disk)
        IN  /\ \A k \in 1..(Len(disk) - 1) : disk[k].id < disk[k + 1].id
            /\ Cardinality(D) = Len(disk)
            /\ D \cup hist.deleted = hist.written
            /\ D \cap hist.deleted = {}
            /\ \A w \in hist.deleted : \A d \in D : w < d

\* a rotation deleted the oldest generation and then a rename of it failed:
\* the record of the deleted file is gone, the later ones are all there
C20_Witness ==
    /\ AllIdle
    /\ bUsed
    /\ hist.renameFailed
    /\ hist.deleted # {}
    /\ Len(FromGen(nLogBackup)) >= 3
    /\ Ids(FromGen(nLogBackup)) = hist.written \ hist.deleted

=============================================================================
